---- MODULE Spec2Model ----
(***************************************************************************)
(* A model of cfddns, a dynamic-DNS updater for Cloudflare.                *)
(*                                                                         *)
(*   src/cfddns/main.py            supervisor: startup, update_dns pass,   *)
(*                                 polling loop with configuration reload  *)
(*   src/cfddns/cloudflare/api.py  CloudflareAPI: client construction,     *)
(*                                 _get_fqdn, _needs_update,               *)
(*                                 get_dns_records, update_dns_record      *)
(*                                                                         *)
(* Strings whose characters matter (hostname labels, TTL strings) are      *)
(* sequences of one-character strings.  The provider's record store is a   *)
(* sequence of records that reflects every successful create and update.   *)
(***************************************************************************)
EXTENDS Integers, Sequences, FiniteSets, TLC

VARIABLES
    pc,               \* position of the single thread of control in main()
    exit_code,        \* the process exit status, Running (-1) while it runs
    exit_reason,      \* what ended the process (the last log line / exception)
    args,             \* main(): args.interval, the --interval option
    interval_seconds, \* main.py:263-274, None in single-shot mode
    file,             \* content of the configuration file (environment)
    config,           \* main(): config
    cloudflare_api,   \* main(): cloudflare_api, the provider client
    initial_hash,     \* main(): initial_hash, the stored fingerprint
    store,            \* the provider's records of the zone (environment)
    ip_data,          \* update_dns(): ip_data
    idx,              \* update_dns(): position in config["subdomains"]
    dns_records,      \* update_dns_record(): dns_records
    changes_made,     \* update_dns(): changes_made
    outcomes,         \* per hostname outcome of the current pass (from the log)
    calls,            \* provider calls issued in the current pass, in order
    report,           \* the summary line of the last finished pass
    prev,             \* ip_data, config and outcomes of the last finished pass,
                      \* and how many passes in a row, up to that one, saw
                      \* the same address and configuration and no failed call
    passes,           \* number of finished passes
    edits,            \* number of edits made to the configuration file
    file_at_sleep     \* content of the file when the current sleep began

vars == <<pc, exit_code, exit_reason, args, interval_seconds, file, config,
          cloudflare_api, initial_hash, store, ip_data, idx, dns_records,
          changes_made, outcomes, calls, report, prev, passes, edits,
          file_at_sleep>>

(***************************************************************************)
(* Bounds                                                                  *)
(***************************************************************************)
MaxPasses == 3
MaxEnginePasses == 2
MaxEdits == 3
MaxHosts == 2
MaxInitRecords == 1

(***************************************************************************)
(* Program constants                                                       *)
(***************************************************************************)
PerPage == 100
MinTTL == 60
MaxTTL == 86400
DefaultTTL == 300
AutoTTL == 1

None == "None"
Running == 0 - 1
Absent == "<absent>"

Range(s) == {s[i] : i \in DOMAIN s}

(***************************************************************************)
(* Strings as sequences of characters                                      *)
(***************************************************************************)
Whitespace == {" "}
Digits == {"0", "1", "2", "3", "4", "5", "6", "7", "8", "9"}

\* str.lower() on one character of the alphabet used here
LowerChar(c) ==
    CASE c = "H" -> "h"
      [] c = "W" -> "w"
      [] c = "E" -> "e"
      [] c = "C" -> "c"
      [] OTHER -> c

Lower(s) == [i \in DOMAIN s |-> LowerChar(s[i])]

RECURSIVE LStrip(_)
LStrip(s) ==
    IF s # <<>> /\ Head(s) \in Whitespace THEN LStrip(Tail(s)) ELSE s

RECURSIVE RStrip(_)
RStrip(s) ==
    IF s # <<>> /\ s[Len(s)] \in Whitespace
    THEN RStrip(SubSeq(s, 1, Len(s) - 1))
    ELSE s

\* str.strip()
Strip(s) == RStrip(LStrip(s))

\* str.endswith(suffix)
EndsWith(s, suffix) ==
    /\ Len(s) >= Len(suffix)
    /\ SubSeq(s, Len(s) - Len(suffix) + 1, Len(s)) = suffix

DigitVal(c) ==
    CASE c = "0" -> 0 [] c = "1" -> 1 [] c = "2" -> 2 [] c = "3" -> 3
      [] c = "4" -> 4 [] c = "5" -> 5 [] c = "6" -> 6 [] c = "7" -> 7
      [] c = "8" -> 8 [] c = "9" -> 9

RECURSIVE DigitsVal(_)
DigitsVal(s) ==
    IF s = <<>> THEN 0
    ELSE 10 * DigitsVal(SubSeq(s, 1, Len(s) - 1)) + DigitVal(s[Len(s)])

\* int(str): surrounding whitespace and one sign are allowed, then one or
\* more digits; anything else raises ValueError (ok = FALSE)
IntOfStr(s) ==
    LET t == Strip(s)
        signed == t # <<>> /\ Head(t) \in {"+", "-"}
        d == IF signed THEN Tail(t) ELSE t
    IN  IF d # <<>> /\ Range(d) \subseteq Digits
        THEN [ok |-> TRUE,
              v |-> IF signed /\ Head(t) = "-" THEN 0 - DigitsVal(d)
                    ELSE DigitsVal(d)]
        ELSE [ok |-> FALSE, v |-> 0]

(***************************************************************************)
(* Configuration values                                                    *)
(***************************************************************************)
\* a TTL as written in the configuration: a YAML integer or a YAML string
TInt(n) == [kind |-> "int", int |-> n, str |-> <<>>]
TStr(s) == [kind |-> "str", int |-> 0, str |-> s]

AUTO == <<"a", "u", "t", "o">>

\* main.py:229-237, the TTL clamp of update_dns.  ok = FALSE is the
\* ValueError that int() raises for a string that is not a number.
normalize_ttl(ttl) ==
    IF (ttl.kind = "str" /\ ttl.str = AUTO) \/ (ttl.kind = "int" /\ ttl.int = 1)
    THEN [ok |-> TRUE, v |-> AutoTTL]
    ELSE LET n == IF ttl.kind = "int" THEN [ok |-> TRUE, v |-> ttl.int]
                  ELSE IntOfStr(ttl.str)
         IN  IF ~n.ok THEN [ok |-> FALSE, v |-> 0]
             ELSE IF n.v < MinTTL \/ n.v > MaxTTL
                  THEN [ok |-> TRUE, v |-> DefaultTTL]
                  ELSE [ok |-> TRUE, v |-> n.v]

Host(name, proxied, ttl) == [name |-> name, proxied |-> proxied, ttl |-> ttl]

TokenAuth(token) == [api_token |-> token, api_key |-> Absent]
KeyAuth == [api_token |-> Absent, api_key |-> "key+email"]

Config(auth, zone, subdomains) ==
    [auth |-> auth, zone_id |-> zone, subdomains |-> subdomains]

\* main.py:64-116.  The model's configurations are mappings whose values
\* have the right types; what remains of the checks is the presence of an
\* authentication method, a non-blank zone_id and non-blank hostnames.
validate_config(c) ==
    /\ ~(c.auth.api_token = Absent /\ c.auth.api_key = Absent)
    /\ Strip(c.zone_id) # <<>>
    /\ \A i \in DOMAIN c.subdomains : Strip(c.subdomains[i].name) # <<>>

(***************************************************************************)
(* The configuration file                                                  *)
(***************************************************************************)
\* what yaml.safe_load returns for the file: a mapping, or None for an
\* empty document
NoConfig == Config(TokenAuth(""), <<>>, <<>>)
Mapping(c) == [kind |-> "mapping", value |-> c]
EmptyDoc == [kind |-> "none", value |-> NoConfig]

\* main.py:154-163: SHA-256 of the content; distinct contents are taken to
\* have distinct digests
get_file_hash(content) == <<"sha256", content>>

\* main.py:137-151.  The result is the configuration (result = "config"),
\* None when validation returns False, or the TypeError that validate_config
\* raises at main.py:69 when the document is not a container and that
\* load_config does not catch.
load_config(content) ==
    IF content.kind = "none" THEN [result |-> "TypeError", value |-> NoConfig]
    ELSE IF validate_config(content.value)
         THEN [result |-> "config", value |-> content.value]
         ELSE [result |-> "None", value |-> NoConfig]

(***************************************************************************)
(* CloudflareAPI (src/cfddns/cloudflare/api.py)                            *)
(***************************************************************************)
PLACEHOLDER == "your_api_token_here"

\* the zones of the account and the provider's answer to
\* GET /zones/<zone_id>: the zone's base domain
Z1 == <<"z", "1">>
Z2 == <<"z", "2">>
ZoneName(zone_id) == IF zone_id = Z2 THEN <<"c">> ELSE <<"e", ".", "c">>

\* api.py:20-62 with main.py:119-134.  net is what the network does to the
\* two requests of the constructor.  The result is the client, or None
\* (an exception caught by init_cloudflare_api_client), or Exit (sys.exit(1)
\* inside the constructor).
Client(c) ==
    [config |-> c,
     zone_id |-> c.zone_id,
     token |-> c.auth.api_token,
     base_domain_name |-> ZoneName(c.zone_id)]

NoClient == [config |-> NoConfig, zone_id |-> <<>>, token |-> "",
             base_domain_name |-> <<>>]

init_cloudflare_api_client(c, net) ==
    IF c.auth.api_token = Absent
    THEN [result |-> "None", error |-> "KeyError", client |-> NoClient]
    ELSE IF c.auth.api_token \in {"", PLACEHOLDER}
    THEN [result |-> "None", error |-> "InvalidAPITokenError",
          client |-> NoClient]
    ELSE IF net = "verify_error"
    THEN [result |-> "Exit", error |-> "TokenVerificationError",
          client |-> NoClient]
    ELSE IF net = "zone_error"
    THEN [result |-> "Exit", error |-> "zone lookup failed",
          client |-> NoClient]
    ELSE [result |-> "Client", error |-> "", client |-> Client(c)]

NetOutcomes == {"ok", "verify_error", "zone_error"}

\* get_fqdn appending the base domain to every name, whatever it ends with
get_fqdn_always_append(subdomain, base_domain_name) ==
    Strip(Lower(subdomain)) \o <<".">> \o base_domain_name

\* api.py:64-82
get_fqdn(subdomain, base_domain_name) ==
    LET name == Strip(Lower(subdomain)) IN
    IF name = base_domain_name THEN base_domain_name
    ELSE IF EndsWith(name, <<".">> \o base_domain_name) THEN name
    ELSE IF "." \in Range(name) THEN name \o <<".">> \o base_domain_name
    ELSE name \o <<".">> \o base_domain_name

\* api.py:93-103, the successful answer: the first page of the zone's
\* records of one type
OfType(records, type) == SelectSeq(records, LAMBDA r : r.type = type)

FirstPage(records) ==
    IF Len(records) <= PerPage THEN records ELSE SubSeq(records, 1, PerPage)

\* list_records without the type filter of the query
list_records_all_types(records, type) == FirstPage(records)

list_records(records, type) == FirstPage(OfType(records, type))

\* needs_update with the TTL compared whatever the record's proxied flag is
needs_update_ttl_regardless(record, proxied, ttl, ip) ==
    [content |-> record.content # ip.address,
     proxied |-> record.proxied # proxied,
     ttl |-> record.ttl # ttl]

\* api.py:105-111
needs_update(record, proxied, ttl, ip) ==
    [content |-> record.content # ip.address,
     proxied |-> record.proxied # proxied,
     ttl |-> ~record.proxied /\ record.ttl # ttl]

any_delta(d) == d.content \/ d.proxied \/ d.ttl

\* update_payload as a full overwrite with the desired values
update_payload_full_overwrite(record, fqdn, proxied, ttl, ip) ==
    [type |-> ip.type,
     name |-> fqdn,
     content |-> ip.address,
     proxied |-> proxied,
     ttl |-> ttl,
     comment |-> "Updated by cffdns"]

\* api.py:154-165, the body of the PATCH request
update_payload(record, fqdn, proxied, ttl, ip) ==
    LET d == needs_update(record, proxied, ttl, ip) IN
    [type |-> ip.type,
     name |-> fqdn,
     content |-> IF d.content THEN ip.address ELSE record.content,
     proxied |-> IF d.proxied THEN proxied ELSE record.proxied,
     ttl |-> IF d.ttl THEN ttl ELSE record.ttl,
     comment |-> "Updated by cffdns"]

\* create_payload with the default TTL in place of the desired one
create_payload_default_ttl(fqdn, proxied, ttl, ip) ==
    [type |-> ip.type,
     name |-> fqdn,
     content |-> ip.address,
     proxied |-> proxied,
     ttl |-> DefaultTTL,
     comment |-> "Created by cffdns"]

\* api.py:189-196, the body of the POST request
create_payload(fqdn, proxied, ttl, ip) ==
    [type |-> ip.type,
     name |-> fqdn,
     content |-> ip.address,
     proxied |-> proxied,
     ttl |-> ttl,
     comment |-> "Created by cffdns"]

\* api.py:143-144: position of the first listed record named fqdn, 0 if none
FirstMatch(result, fqdn) ==
    LET named == {i \in DOMAIN result : result[i].name = fqdn} IN
    IF named = {} THEN 0
    ELSE CHOOSE i \in named : \A j \in named : i <= j

NoPayload == [type |-> "", name |-> <<>>, content |-> "", proxied |-> FALSE,
              ttl |-> 0, comment |-> ""]
NoRequest == [op |-> "none", id |-> 0, payload |-> NoPayload]

\* what get_dns_records returned: the parsed answer, or None (api.py:103)
Listed(result) == [ok |-> TRUE, result |-> result]
LookupFailed == [ok |-> FALSE, result |-> <<>>]

\* update_dns_record falling through to the create path when the lookup
\* failed
update_dns_record_create_on_failed_lookup(answer, fqdn, proxied, ttl, ip) ==
    LET records == answer.result
        m == FirstMatch(records, fqdn) IN
    IF m = 0
    THEN [request |-> [op |-> "POST",
                       id |-> 0,
                       payload |-> create_payload(fqdn, proxied, ttl, ip)],
          log |-> "Creating new record"]
    ELSE IF any_delta(needs_update(records[m], proxied, ttl, ip))
    THEN [request |-> [op |-> "PATCH",
                       id |-> records[m].id,
                       payload |-> update_payload(records[m], fqdn,
                                                  proxied, ttl, ip)],
          log |-> "Updating record"]
    ELSE [request |-> NoRequest, log |-> "already up-to-date"]

\* update_dns_record sending an update for every matching record, changed
\* or not
update_dns_record_always_patch(answer, fqdn, proxied, ttl, ip) ==
    IF ~answer.ok
    THEN [request |-> NoRequest, log |-> "No existing DNS records found"]
    ELSE LET records == answer.result
             m == FirstMatch(records, fqdn) IN
         IF m = 0
         THEN [request |-> [op |-> "POST",
                            id |-> 0,
                            payload |-> create_payload(fqdn, proxied, ttl, ip)],
               log |-> "Creating new record"]
         ELSE [request |-> [op |-> "PATCH",
                            id |-> records[m].id,
                            payload |-> update_payload(records[m], fqdn,
                                                       proxied, ttl, ip)],
               log |-> "Updating record"]

\* api.py:142-210: the request update_dns_record decides to send, given what
\* get_dns_records returned (None when the lookup failed), and the log line
\* that goes with the decision
update_dns_record(answer, fqdn, proxied, ttl, ip) ==
    IF ~answer.ok
    THEN [request |-> NoRequest, log |-> "No existing DNS records found"]
    ELSE LET records == answer.result
             m == FirstMatch(records, fqdn) IN
         IF m = 0
         THEN [request |-> [op |-> "POST",
                            id |-> 0,
                            payload |-> create_payload(fqdn, proxied, ttl, ip)],
               log |-> "Creating new record"]
         ELSE IF any_delta(needs_update(records[m], proxied, ttl, ip))
         THEN [request |-> [op |-> "PATCH",
                            id |-> records[m].id,
                            payload |-> update_payload(records[m], fqdn,
                                                       proxied, ttl, ip)],
               log |-> "Updating record"]
         ELSE [request |-> NoRequest, log |-> "already up-to-date"]

(***************************************************************************)
(* The provider's store                                                    *)
(***************************************************************************)
\* PATCH /dns_records/<id>: the fields of the body replace the record's
provider_patch(records, id, payload) ==
    [i \in DOMAIN records |->
        IF records[i].id = id
        THEN [f \in DOMAIN records[i] |->
                IF f \in DOMAIN payload THEN payload[f] ELSE records[i][f]]
        ELSE records[i]]

\* POST /dns_records: a record with a fresh identifier is appended
provider_post(records, payload) ==
    Append(records,
           [id |-> Len(records) + 1,
            type |-> payload.type,
            name |-> payload.name,
            content |-> payload.content,
            proxied |-> payload.proxied,
            ttl |-> payload.ttl,
            comment |-> payload.comment])

(***************************************************************************)
(* Inputs                                                                  *)
(***************************************************************************)
BaseDomain == ZoneName(Z1)
FqdnH == <<"h", ".", "e", ".", "c">>
FqdnW == <<"w", ".", "e", ".", "c">>

\* what the echo endpoint reports: an address, or a failure of the request
\* (main.py:197-198) or of the parse (main.py:195, 199-200)
Addresses == {"1.2.3.4", "2001:db8::1"}
EchoFailures == {"RequestException", "ValueError"}

\* main.py:191
ip_type(address) == IF address = "2001:db8::1" THEN "AAAA" ELSE "A"

Observation(address) == [address |-> address, type |-> ip_type(address)]
NoIp == [address |-> "", type |-> ""]

Record(id, type, name, content, proxied, ttl, comment) ==
    [id |-> id, type |-> type, name |-> name, content |-> content,
     proxied |-> proxied, ttl |-> ttl, comment |-> comment]

\* the supervisor's configuration files
ConfigA == Config(TokenAuth("tokenA"), Z1, <<Host(<<"h">>, FALSE, TInt(300))>>)
ConfigB == Config(TokenAuth("tokenB"), Z1, <<Host(<<"w">>, TRUE, TStr(AUTO))>>)
ConfigK == Config(KeyAuth, Z1, <<Host(<<"h">>, FALSE, TInt(300))>>)
ConfigBad == Config(TokenAuth("tokenA"), <<" ">>, <<>>)

FileContents ==
    {Mapping(ConfigA), Mapping(ConfigB), Mapping(ConfigK), Mapping(ConfigBad),
     EmptyDoc}

\* command lines: no --interval, or --interval N
NoArg == [given |-> FALSE, v |-> 0]
Arg(n) == [given |-> TRUE, v |-> n]
ArgIntervals == {NoArg, Arg(45)}

\* main.py:263-274; 0 stands for None
interval(arg) ==
    IF arg.given /\ arg.v # 0
    THEN IF arg.v < 30 \/ arg.v > 3600 THEN 60 ELSE arg.v
    ELSE 0

SupervisorStores ==
    {<<Record(1, "A", FqdnH, "5.6.7.8", TRUE, 1, "set by user")>>}

\* the engine's inputs: every configuration of up to MaxHosts hostnames and
\* every store of up to MaxInitRecords records over these values
EngineTTLs == {TInt(300), TStr(AUTO)}
EngineHosts ==
    {Host(<<"h">>, p, t) : p \in BOOLEAN, t \in EngineTTLs}
      \cup {Host(<<"W", ".", "e", ".", "c">>, FALSE, TInt(300))}

SeqsUpTo(S, n) == UNION {[1..k -> S] : k \in 0..n}

EngineConfigs ==
    {Config(TokenAuth("tokenA"), Z1, hs) :
        hs \in {h \in SeqsUpTo(EngineHosts, MaxHosts) :
                   /\ h # <<>>
                   /\ \A i, j \in DOMAIN h : h[i].name = h[j].name => i = j}}

\* the provider keeps the TTL of a proxied record at 1 (automatic)
EngineRecordValues ==
    {Record(0, "A", FqdnH, c, pt[1], pt[2], "set by user") :
        c \in {"1.2.3.4", "5.6.7.8"},
        pt \in {<<TRUE, 1>>, <<FALSE, 1>>, <<FALSE, 120>>}}

EngineStores ==
    {[i \in DOMAIN rs |-> [rs[i] EXCEPT !.id = i]] :
        rs \in SeqsUpTo(EngineRecordValues, MaxInitRecords)}

\* runs on a configuration file that nobody edits: the command lines, and
\* the files whose hostnames, TTLs, credentials or number of hostnames vary
RunArgs ==
    {NoArg, Arg(0), Arg(0 - 5), Arg(29), Arg(30), Arg(45), Arg(3600),
     Arg(3601)}

RunNames ==
    {<<"h">>, <<"a", ".", "b">>, <<"e", ".", "c">>, <<" ", "E", ".", "c", " ">>,
     <<"W", ".", "e", ".", "c">>, <<"x", "e", ".", "c">>, <<"c">>}

RunTTLs ==
    {TInt(1), TStr(AUTO), TInt(60), TInt(86400), TInt(59), TInt(86401),
     TInt(0), TInt(0 - 5), TStr(<<"1", "2", "0">>), TStr(<<" ", "9", "0">>),
     TStr(<<"7">>), TStr(<<"a", "b", "c">>), TStr(<<>>)}

RunHosts ==
    {Host(<<"h">>, FALSE, TInt(300)),
     Host(<<"W", ".", "e", ".", "c">>, TRUE, TStr(AUTO)),
     Host(<<"a", ".", "b">>, FALSE, TInt(120))}

ConfigPlaceholder ==
    Config(TokenAuth(PLACEHOLDER), Z1, <<Host(<<"h">>, FALSE, TInt(300))>>)
ConfigEmptyToken ==
    Config(TokenAuth(""), Z1, <<Host(<<"h">>, FALSE, TInt(300))>>)
ConfigNoAuth ==
    Config([api_token |-> Absent, api_key |-> Absent], Z1,
           <<Host(<<"h">>, FALSE, TInt(300))>>)

RunFiles ==
    {Mapping(Config(TokenAuth("tokenA"), z, <<Host(n, FALSE, TInt(300))>>)) :
        z \in {Z1, Z2}, n \in RunNames}
      \cup {Mapping(Config(TokenAuth("tokenA"), Z1, <<Host(<<"h">>, FALSE, t)>>)) :
               t \in RunTTLs}
      \cup {Mapping(Config(TokenAuth("tokenA"), Z1, hs)) :
               hs \in {h \in SeqsUpTo(RunHosts, MaxHosts) :
                          /\ h # <<>>
                          /\ \A i, j \in DOMAIN h :
                                h[i].name = h[j].name => i = j}}
      \cup {Mapping(ConfigK), Mapping(ConfigBad), Mapping(ConfigPlaceholder),
            Mapping(ConfigEmptyToken), Mapping(ConfigNoAuth), EmptyDoc}

\* a zone with one record more than a page of the list call holds: the
\* record of the hostname h comes after PerPage records of another name
FqdnF == <<"f", ".", "e", ".", "c">>
LargeZone ==
    [i \in 1..(PerPage + 1) |->
        IF i <= PerPage
        THEN Record(i, "A", FqdnF, "9.9.9.9", FALSE, 300, "set by user")
        ELSE Record(i, "A", FqdnH, "1.2.3.4", FALSE, 300, "set by user")]

RunStores == SupervisorStores \cup {<<>>, LargeZone}

NoHash == <<"unset", EmptyDoc>>
NoPrev == [ip_data |-> NoIp, config |-> NoConfig, outcomes |-> <<>>,
           steady |-> 0]

(***************************************************************************)
(* The supervisor (src/cfddns/main.py)                                     *)
(***************************************************************************)
Init ==
    /\ pc = "load_config"
    /\ exit_code = Running
    /\ exit_reason = ""
    /\ args \in ArgIntervals
    /\ interval_seconds = interval(args)
    /\ file \in FileContents
    /\ config = NoConfig
    /\ cloudflare_api = NoClient
    /\ initial_hash = NoHash
    /\ store \in SupervisorStores
    /\ ip_data = NoIp
    /\ idx = 0
    /\ dns_records = LookupFailed
    /\ changes_made = 0
    /\ outcomes = <<>>
    /\ calls = <<>>
    /\ report = ""
    /\ prev = NoPrev
    /\ passes = 0
    /\ edits = 0
    /\ file_at_sleep = file

\* the engine alone: the client has been constructed from a configuration
\* and the first pass is about to start, in continuous mode
InitEngine ==
    /\ pc = "get_own_ip"
    /\ exit_code = Running
    /\ exit_reason = ""
    /\ args = Arg(60)
    /\ interval_seconds = interval(args)
    /\ config \in EngineConfigs
    /\ file = Mapping(config)
    /\ cloudflare_api = Client(config)
    /\ initial_hash = NoHash
    /\ store \in EngineStores
    /\ ip_data = NoIp
    /\ idx = 0
    /\ dns_records = LookupFailed
    /\ changes_made = 0
    /\ outcomes = <<>>
    /\ calls = <<>>
    /\ report = ""
    /\ prev = NoPrev
    /\ passes = 0
    /\ edits = 0
    /\ file_at_sleep = file

\* the supervisor started on a file that stays as it is: every file in
\* single-shot mode, every command line on the first file
InitRun ==
    /\ pc = "load_config"
    /\ exit_code = Running
    /\ exit_reason = ""
    /\ args \in RunArgs
    /\ interval_seconds = interval(args)
    /\ file \in RunFiles
    /\ args = NoArg \/ file = Mapping(ConfigA)
    /\ config = NoConfig
    /\ cloudflare_api = NoClient
    /\ initial_hash = NoHash
    /\ store \in RunStores
    /\ ip_data = NoIp
    /\ idx = 0
    /\ dns_records = LookupFailed
    /\ changes_made = 0
    /\ outcomes = <<>>
    /\ calls = <<>>
    /\ report = ""
    /\ prev = NoPrev
    /\ passes = 0
    /\ edits = 0
    /\ file_at_sleep = file

pass_vars == <<ip_data, idx, dns_records, changes_made, outcomes, calls>>
proc_vars == <<pc, exit_code, exit_reason, args, interval_seconds, config,
               cloudflare_api, initial_hash, ip_data, idx, dns_records,
               changes_made, outcomes, calls, report, prev, passes,
               file_at_sleep>>

\* sys.exit(code), or an exception nobody catches (code 1)
Exit(code, reason) ==
    /\ pc' = "exited"
    /\ exit_code' = code
    /\ exit_reason' = reason

\* main.py:276-282
main_load_config ==
    /\ pc = "load_config"
    /\ LET r == load_config(file) IN
       IF r.result = "config"
       THEN /\ config' = r.value
            /\ pc' = "init_client"
            /\ UNCHANGED <<exit_code, exit_reason>>
       ELSE /\ Exit(1, IF r.result = "TypeError" THEN "TypeError"
                       ELSE "Invalid configuration")
            /\ UNCHANGED config
    /\ UNCHANGED <<args, interval_seconds, file, cloudflare_api, initial_hash, store,
                   pass_vars, report, prev, passes, edits, file_at_sleep>>

\* main_init_client starting the first pass without a client when the
\* constructor raised an exception
main_init_client_continue_without_client ==
    /\ pc = "init_client"
    /\ \E net \in NetOutcomes :
         LET r == init_cloudflare_api_client(config, net) IN
         IF r.result = "Client"
         THEN /\ cloudflare_api' = r.client
              /\ pc' = "get_own_ip"
              /\ UNCHANGED <<exit_code, exit_reason>>
         ELSE IF r.result = "None"
         THEN /\ pc' = "get_own_ip"
              /\ UNCHANGED <<exit_code, exit_reason, cloudflare_api>>
         ELSE /\ Exit(1, r.error)
              /\ UNCHANGED cloudflare_api
    /\ UNCHANGED <<args, interval_seconds, file, config, initial_hash, store,
                   pass_vars, report, prev, passes, edits, file_at_sleep>>

\* main.py:284-287
main_init_client ==
    /\ pc = "init_client"
    /\ \E net \in NetOutcomes :
         LET r == init_cloudflare_api_client(config, net) IN
         IF r.result = "Client"
         THEN /\ cloudflare_api' = r.client
              /\ pc' = "get_own_ip"
              /\ UNCHANGED <<exit_code, exit_reason>>
         ELSE /\ Exit(1, r.error)
              /\ UNCHANGED cloudflare_api
    /\ UNCHANGED <<args, interval_seconds, file, config, initial_hash, store,
                   pass_vars, report, prev, passes, edits, file_at_sleep>>

\* update_dns_get_own_ip giving up the pass, not the process, when the
\* address cannot be resolved
update_dns_get_own_ip_skip_pass ==
    /\ pc = "get_own_ip"
    /\ \E answer \in Addresses \cup EchoFailures :
         IF answer \in Addresses
         THEN /\ ip_data' = Observation(answer)
              /\ pc' = IF config.subdomains = <<>> THEN "report"
                       ELSE "get_dns_records"
              /\ UNCHANGED <<exit_code, exit_reason>>
         ELSE IF interval_seconds # 0 /\ passes >= 1
         THEN /\ pc' = "sleep"
              /\ ip_data' = NoIp
              /\ UNCHANGED <<exit_code, exit_reason>>
         ELSE /\ Exit(1, answer)
              /\ ip_data' = NoIp
    /\ idx' = 1
    /\ changes_made' = 0
    /\ outcomes' = <<>>
    /\ calls' = <<>>
    /\ UNCHANGED <<args, interval_seconds, file, config, cloudflare_api,
                   initial_hash, store, dns_records, report, prev, passes,
                   edits, file_at_sleep>>

\* update_dns_get_own_ip keeping the observation of the previous pass in the
\* passes of the loop
update_dns_get_own_ip_cached ==
    /\ pc = "get_own_ip"
    /\ \E answer \in Addresses \cup EchoFailures :
         IF answer \in Addresses
         THEN /\ ip_data' = IF passes >= 1 THEN prev.ip_data
                             ELSE Observation(answer)
              /\ pc' = IF config.subdomains = <<>> THEN "report"
                       ELSE "get_dns_records"
              /\ UNCHANGED <<exit_code, exit_reason>>
         ELSE /\ Exit(1, answer)
              /\ ip_data' = NoIp
    /\ idx' = 1
    /\ changes_made' = 0
    /\ outcomes' = <<>>
    /\ calls' = <<>>
    /\ UNCHANGED <<args, interval_seconds, file, config, cloudflare_api,
                   initial_hash, store, dns_records, report, prev, passes,
                   edits, file_at_sleep>>

\* main.py:210-224 with get_own_ip (main.py:166-200): the start of a pass.
\* get_own_ip raises on every failure and neither update_dns nor main
\* catches the exception.
update_dns_get_own_ip ==
    /\ pc = "get_own_ip"
    /\ \E answer \in Addresses \cup EchoFailures :
         IF answer \in Addresses
         THEN /\ ip_data' = Observation(answer)
              /\ pc' = IF config.subdomains = <<>> THEN "report"
                       ELSE "get_dns_records"
              /\ UNCHANGED <<exit_code, exit_reason>>
         ELSE /\ Exit(1, answer)
              /\ ip_data' = NoIp
    /\ idx' = 1
    /\ changes_made' = 0
    /\ outcomes' = <<>>
    /\ calls' = <<>>
    /\ UNCHANGED <<args, interval_seconds, file, config, cloudflare_api,
                   initial_hash, store, dns_records, report, prev, passes,
                   edits, file_at_sleep>>

Call(op, host, id, payload, ok) ==
    [op |-> op, host |-> host, id |-> id, payload |-> payload, ok |-> ok]

\* update_dns_get_dns_records listing the records once per pass and using
\* that answer for every hostname
update_dns_get_dns_records_list_once ==
    /\ pc = "get_dns_records"
    /\ LET host == config.subdomains[idx]
           ttl == normalize_ttl(host.ttl)
       IN  IF ~ttl.ok
           THEN /\ Exit(1, "ValueError")
                /\ UNCHANGED <<dns_records, calls>>
           ELSE IF idx > 1
           THEN /\ pc' = "update_dns_record"
                /\ UNCHANGED <<dns_records, calls, exit_code, exit_reason>>
           ELSE \E ok \in BOOLEAN :
                  /\ dns_records' =
                        IF ok THEN Listed(list_records(store, ip_data.type))
                        ELSE LookupFailed
                  /\ calls' = Append(calls,
                        Call("GET", idx, 0,
                             [NoPayload EXCEPT !.type = ip_data.type], ok))
                  /\ pc' = "update_dns_record"
                  /\ UNCHANGED <<exit_code, exit_reason>>
    /\ UNCHANGED <<args, interval_seconds, file, config, cloudflare_api,
                   initial_hash, store, ip_data, idx, changes_made, outcomes,
                   report, prev, passes, edits, file_at_sleep>>

\* update_dns_get_dns_records sending the lookups of all hostnames ahead of
\* the first hostname's decision
update_dns_get_dns_records_prefetch_all ==
    /\ pc = "get_dns_records"
    /\ LET host == config.subdomains[idx]
           ttl == normalize_ttl(host.ttl)
       IN  IF ~ttl.ok
           THEN /\ Exit(1, "ValueError")
                /\ UNCHANGED <<dns_records, calls>>
           ELSE IF idx > 1
           THEN /\ pc' = "update_dns_record"
                /\ UNCHANGED <<dns_records, calls, exit_code, exit_reason>>
           ELSE \E ok \in BOOLEAN :
                  /\ dns_records' =
                        IF ok THEN Listed(list_records(store, ip_data.type))
                        ELSE LookupFailed
                  /\ calls' = calls \o
                        [k \in DOMAIN config.subdomains |->
                           Call("GET", k, 0,
                                [NoPayload EXCEPT !.type = ip_data.type], ok)]
                  /\ pc' = "update_dns_record"
                  /\ UNCHANGED <<exit_code, exit_reason>>
    /\ UNCHANGED <<args, interval_seconds, file, config, cloudflare_api,
                   initial_hash, store, ip_data, idx, changes_made, outcomes,
                   report, prev, passes, edits, file_at_sleep>>

\* main.py:226-239 and api.py:137-140 with get_dns_records (api.py:93-103):
\* the TTL clamp of the next hostname, then the lookup
update_dns_get_dns_records ==
    /\ pc = "get_dns_records"
    /\ LET host == config.subdomains[idx]
           ttl == normalize_ttl(host.ttl)
       IN  IF ~ttl.ok
           THEN /\ Exit(1, "ValueError")
                /\ UNCHANGED <<dns_records, calls>>
           ELSE \E ok \in BOOLEAN :
                  /\ dns_records' =
                        IF ok THEN Listed(list_records(store, ip_data.type))
                        ELSE LookupFailed
                  /\ calls' = Append(calls,
                        Call("GET", idx, 0,
                             [NoPayload EXCEPT !.type = ip_data.type], ok))
                  /\ pc' = "update_dns_record"
                  /\ UNCHANGED <<exit_code, exit_reason>>
    /\ UNCHANGED <<args, interval_seconds, file, config, cloudflare_api,
                   initial_hash, store, ip_data, idx, changes_made, outcomes,
                   report, prev, passes, edits, file_at_sleep>>

\* the outcome the log shows for a hostname
Outcome(log, ok) ==
    CASE log = "Creating new record" -> IF ok THEN "Created" ELSE "Failed"
      [] log = "Updating record" -> IF ok THEN "Updated" ELSE "Failed"
      [] log = "already up-to-date" -> "Unchanged"
      [] OTHER -> "LookupFailed"

\* update_dns_update_record giving up the rest of the pass when the create
\* or update call of a hostname fails
update_dns_update_record_abort_on_failure ==
    /\ pc = "update_dns_record"
    /\ LET host == config.subdomains[idx]
           ttl == normalize_ttl(host.ttl).v
           fqdn == get_fqdn(host.name, cloudflare_api.base_domain_name)
           d == update_dns_record(dns_records, fqdn, host.proxied, ttl, ip_data)
           req == d.request
       IN  \E ok \in BOOLEAN :
             /\ req.op = "none" => ok = FALSE
             /\ store' =
                  IF ~ok THEN store
                  ELSE IF req.op = "PATCH"
                       THEN provider_patch(store, req.id, req.payload)
                       ELSE provider_post(store, req.payload)
             /\ calls' = IF req.op = "none" THEN calls
                         ELSE Append(calls,
                                Call(req.op, idx, req.id, req.payload, ok))
             /\ changes_made' = IF ok THEN changes_made + 1 ELSE changes_made
             /\ outcomes' = Append(outcomes, Outcome(d.log, ok))
             /\ IF idx < Len(config.subdomains) /\ (ok \/ req.op = "none")
                THEN idx' = idx + 1 /\ pc' = "get_dns_records"
                ELSE idx' = idx /\ pc' = "report"
    /\ UNCHANGED <<exit_code, exit_reason, args, interval_seconds, file, config,
                   cloudflare_api, initial_hash, ip_data, dns_records, report,
                   prev, passes, edits, file_at_sleep>>

\* api.py:142-210 and main.py:241-242: the decision for the hostname, the
\* request it sends, and the step to the next hostname
update_dns_update_record ==
    /\ pc = "update_dns_record"
    /\ LET host == config.subdomains[idx]
           ttl == normalize_ttl(host.ttl).v
           fqdn == get_fqdn(host.name, cloudflare_api.base_domain_name)
           d == update_dns_record(dns_records, fqdn, host.proxied, ttl, ip_data)
           req == d.request
       IN  \E ok \in BOOLEAN :
             /\ req.op = "none" => ok = FALSE
             /\ store' =
                  IF ~ok THEN store
                  ELSE IF req.op = "PATCH"
                       THEN provider_patch(store, req.id, req.payload)
                       ELSE provider_post(store, req.payload)
             /\ calls' = IF req.op = "none" THEN calls
                         ELSE Append(calls,
                                Call(req.op, idx, req.id, req.payload, ok))
             /\ changes_made' = IF ok THEN changes_made + 1 ELSE changes_made
             /\ outcomes' = Append(outcomes, Outcome(d.log, ok))
    /\ IF idx < Len(config.subdomains)
       THEN idx' = idx + 1 /\ pc' = "get_dns_records"
       ELSE idx' = idx /\ pc' = "report"
    /\ UNCHANGED <<exit_code, exit_reason, args, interval_seconds, file, config,
                   cloudflare_api, initial_hash, ip_data, dns_records, report,
                   prev, passes, edits, file_at_sleep>>

\* main.py:244-251: the summary of the pass; update_dns returns to main
update_dns_report ==
    /\ pc = "report"
    /\ report' = IF changes_made > 0 THEN "updated or created"
                 ELSE "All DNS records up-to-date"
    /\ prev' = [ip_data |-> ip_data, config |-> config, outcomes |-> outcomes,
                steady |->
                   IF \E j \in DOMAIN calls : ~calls[j].ok THEN 0
                   ELSE IF passes = 0
                           \/ (prev.ip_data = ip_data /\ prev.config = config)
                        THEN prev.steady + 1
                        ELSE 1]
    /\ passes' = passes + 1
    /\ pc' = IF passes = 0 THEN "initial_hash" ELSE "sleep"
    /\ file_at_sleep' = file
    /\ UNCHANGED <<exit_code, exit_reason, args, interval_seconds, file, config,
                   cloudflare_api, initial_hash, store, pass_vars, edits>>

\* main.py:292-296: the fingerprint is taken after the first pass; without
\* an interval main returns
main_initial_hash ==
    /\ pc = "initial_hash"
    /\ initial_hash' = get_file_hash(file)
    /\ file_at_sleep' = file
    /\ IF interval_seconds # 0
       THEN pc' = "sleep" /\ UNCHANGED <<exit_code, exit_reason>>
       ELSE Exit(0, "done")
    /\ UNCHANGED <<args, interval_seconds, file, config, cloudflare_api, store,
                   pass_vars, report, prev, passes, edits>>

\* main_loop going on with the previous client when the client cannot be
\* constructed from the reloaded configuration
main_loop_keep_old_client ==
    /\ pc = "sleep"
    /\ passes < MaxPasses
    /\ \E net \in NetOutcomes :
         LET current_hash == get_file_hash(file)
             new_config == load_config(file)
             client == init_cloudflare_api_client(new_config.value, net)
         IN  IF current_hash = initial_hash \/ new_config.result = "None"
             THEN /\ pc' = "get_own_ip"
                  /\ UNCHANGED <<exit_code, exit_reason, config,
                                 cloudflare_api, initial_hash>>
             ELSE IF new_config.result = "TypeError"
             THEN /\ Exit(1, "TypeError")
                  /\ UNCHANGED <<config, cloudflare_api, initial_hash>>
             ELSE IF client.result = "Client"
             THEN /\ config' = new_config.value
                  /\ cloudflare_api' = client.client
                  /\ initial_hash' = current_hash
                  /\ pc' = "get_own_ip"
                  /\ UNCHANGED <<exit_code, exit_reason>>
             ELSE /\ config' = new_config.value
                  /\ pc' = "get_own_ip"
                  /\ UNCHANGED <<exit_code, exit_reason, cloudflare_api,
                                 initial_hash>>
    /\ UNCHANGED <<args, interval_seconds, file, store, pass_vars, report, prev,
                   passes, edits, file_at_sleep>>

\* main.py:297-322: one iteration of the loop up to the call of update_dns:
\* the sleep, the fingerprint check and the reload
loop_iteration(limit) ==
    /\ pc = "sleep"
    /\ passes < limit
    /\ \E net \in NetOutcomes :
         LET current_hash == get_file_hash(file)
             new_config == load_config(file)
             client == init_cloudflare_api_client(new_config.value, net)
         IN  IF current_hash = initial_hash \/ new_config.result = "None"
             THEN /\ pc' = "get_own_ip"
                  /\ UNCHANGED <<exit_code, exit_reason, config,
                                 cloudflare_api, initial_hash>>
             ELSE IF new_config.result = "TypeError"
             THEN /\ Exit(1, "TypeError")
                  /\ UNCHANGED <<config, cloudflare_api, initial_hash>>
             ELSE IF client.result = "Client"
             THEN /\ config' = new_config.value
                  /\ cloudflare_api' = client.client
                  /\ initial_hash' = current_hash
                  /\ pc' = "get_own_ip"
                  /\ UNCHANGED <<exit_code, exit_reason>>
             ELSE /\ config' = new_config.value
                  /\ cloudflare_api' = IF client.result = "None" THEN NoClient
                                       ELSE cloudflare_api
                  /\ Exit(1, client.error)
                  /\ UNCHANGED initial_hash
    /\ UNCHANGED <<args, interval_seconds, file, store, pass_vars, report, prev,
                   passes, edits, file_at_sleep>>

\* main_loop replacing the configuration on reload and keeping the client
\* that was constructed from the previous one
main_loop_reload_config_only ==
    /\ pc = "sleep"
    /\ passes < MaxPasses
    /\ LET current_hash == get_file_hash(file)
           new_config == load_config(file)
       IN  IF current_hash = initial_hash \/ new_config.result = "None"
           THEN /\ pc' = "get_own_ip"
                /\ UNCHANGED <<exit_code, exit_reason, config,
                               cloudflare_api, initial_hash>>
           ELSE IF new_config.result = "TypeError"
           THEN /\ Exit(1, "TypeError")
                /\ UNCHANGED <<config, cloudflare_api, initial_hash>>
           ELSE /\ config' = new_config.value
                /\ initial_hash' = current_hash
                /\ pc' = "get_own_ip"
                /\ UNCHANGED <<exit_code, exit_reason, cloudflare_api>>
    /\ UNCHANGED <<args, interval_seconds, file, store, pass_vars, report, prev,
                   passes, edits, file_at_sleep>>

main_loop == loop_iteration(MaxPasses)

\* the same loop in the runs of the engine alone, which are shorter
engine_loop == loop_iteration(MaxEnginePasses)

\* terminate_signal_handler ending the process with status 1
terminate_signal_handler_exit_1 ==
    /\ pc # "exited"
    /\ Exit(1, "signal")
    /\ UNCHANGED <<args, interval_seconds, file, config, cloudflare_api,
                   initial_hash, store, pass_vars, report, prev, passes, edits,
                   file_at_sleep>>

\* main.py:32-46: SIGINT or SIGTERM, at any point after the handlers are set
terminate_signal_handler ==
    /\ pc # "exited"
    /\ Exit(0, "signal")
    /\ UNCHANGED <<args, interval_seconds, file, config, cloudflare_api,
                   initial_hash, store, pass_vars, report, prev, passes, edits,
                   file_at_sleep>>

\* the environment rewrites the configuration file
edit_config_file ==
    /\ pc # "exited"
    /\ edits < MaxEdits
    /\ \E content \in FileContents \ {file} : file' = content
    /\ edits' = edits + 1
    /\ UNCHANGED <<proc_vars, store>>

(***************************************************************************)
(* The legacy validation (src/cfddns/utils/helpers.py)                     *)
(***************************************************************************)
\* config["cloudflare"] of the legacy layout.  A missing key is Absent; the
\* api_key entry stands for auth["api_key"]["api_key"].
LegacyAuth(token, key) == [api_token |-> token, api_key |-> key]

\* a proxied value: a YAML boolean, a YAML string, or no such key
PBool(b) == [kind |-> "bool", b |-> b]
PStr == [kind |-> "str", b |-> FALSE]
PAbsent == [kind |-> "absent", b |-> FALSE]
TAbsent == [kind |-> "absent", int |-> 0, str |-> <<>>]

LegacySub(has_name, name, proxied, ttl) ==
    [has_name |-> has_name, name |-> name, proxied |-> proxied, ttl |-> ttl]

LegacyConfig(auth, zone_id, subdomains) ==
    [auth |-> auth, zone_id |-> zone_id, subdomains |-> subdomains]

\* the characters outside the class [^a-zA-Z0-9.-] of helpers.py:33
NameChars ==
    {"a", "b", "c", "d", "e", "f", "g", "h", "i", "j", "k", "l", "m", "n",
     "o", "p", "q", "r", "s", "t", "u", "v", "w", "x", "y", "z",
     "A", "B", "C", "D", "E", "F", "G", "H", "I", "J", "K", "L", "M", "N",
     "O", "P", "Q", "R", "S", "T", "U", "V", "W", "X", "Y", "Z",
     ".", "-"} \cup Digits

\* helpers.py:31-38: the checks of one subdomain entry pass
helpers_subdomain_ok(sub) ==
    /\ sub.has_name /\ sub.name # <<>>
    /\ Range(sub.name) \subseteq NameChars
    /\ sub.proxied.kind = "bool"
    /\ sub.ttl.kind # "absent"
    /\ sub.ttl.kind = "int" \/ sub.ttl.str \in {<<"1">>, AUTO}

\* helpers_validate_config without the test for a missing authentication
\* method
helpers_validate_config_without_auth_check(c) ==
    IF /\ c.auth.api_token # Absent /\ c.auth.api_key # Absent
       /\ c.auth.api_token # "" /\ c.auth.api_key # ""
    THEN "ValueError"
    ELSE IF c.zone_id \in {Absent, ""}
    THEN "ValueError"
    ELSE IF \E i \in DOMAIN c.subdomains : ~helpers_subdomain_ok(c.subdomains[i])
    THEN "ValueError"
    ELSE "None"

\* helpers.py:17-38: the exception validate_config raises, or None when it
\* returns
helpers_validate_config(c) ==
    IF c.auth.api_token = Absent /\ c.auth.api_key = Absent
    THEN "ValueError"
    ELSE IF /\ c.auth.api_token # Absent /\ c.auth.api_key # Absent
            /\ c.auth.api_token # "" /\ c.auth.api_key # ""
    THEN "ValueError"
    ELSE IF c.zone_id \in {Absent, ""}
    THEN "ValueError"
    ELSE IF \E i \in DOMAIN c.subdomains : ~helpers_subdomain_ok(c.subdomains[i])
    THEN "ValueError"
    ELSE "None"

\* the configurations handed to the legacy validation
LegacyAuths ==
    {LegacyAuth(t, k) : t \in {Absent, "", "my_token"},
                        k \in {Absent, "", "my_api_key"}}
LegacyZones == {Absent, "", "my_zone_id"}
LegacySubs ==
    {LegacySub(n[1], n[2], p, t) :
        n \in {<<TRUE, <<"e", ".", "c">>>>, <<TRUE, <<>>>>,
               <<TRUE, <<"a", "_", "b">>>>, <<FALSE, <<>>>>},
        p \in {PBool(TRUE), PBool(FALSE), PStr, PAbsent},
        t \in {TInt(300), TInt(0), TStr(<<"1">>), TStr(AUTO),
               TStr(<<"X", "Y", "Z">>), TAbsent}}
LegacyConfigs ==
    {LegacyConfig(a, z, subs) :
        a \in LegacyAuths, z \in LegacyZones,
        subs \in {<<>>} \cup {<<sub>> : sub \in LegacySubs}
                 \cup {<<LegacySub(TRUE, <<"e", ".", "c">>, PBool(TRUE),
                                   TStr(<<"1">>)), sub>> : sub \in LegacySubs}}

\* a caller (the unit test) about to validate one configuration
InitHelpers ==
    /\ pc = "validate_config"
    /\ exit_code = Running
    /\ exit_reason = ""
    /\ args = NoArg
    /\ interval_seconds = 0
    /\ file = EmptyDoc
    /\ config \in LegacyConfigs
    /\ cloudflare_api = NoClient
    /\ initial_hash = NoHash
    /\ store = <<>>
    /\ ip_data = NoIp
    /\ idx = 0
    /\ dns_records = LookupFailed
    /\ changes_made = 0
    /\ outcomes = <<>>
    /\ calls = <<>>
    /\ report = ""
    /\ prev = NoPrev
    /\ passes = 0
    /\ edits = 0
    /\ file_at_sleep = file

\* test_validate_config.py:27,45: the call; report takes what came of it
test_validate_config ==
    /\ pc = "validate_config"
    /\ report' = helpers_validate_config(config)
    /\ pc' = "validated"
    /\ UNCHANGED <<exit_code, exit_reason, args, interval_seconds, file, config,
                   cloudflare_api, initial_hash, store, pass_vars, prev, passes,
                   edits, file_at_sleep>>

NextHelpers == test_validate_config

SpecHelpers == InitHelpers /\ [][NextHelpers]_vars

Next ==
    \/ main_load_config
    \/ main_init_client
    \/ update_dns_get_own_ip
    \/ update_dns_get_dns_records
    \/ update_dns_update_record
    \/ update_dns_report
    \/ main_initial_hash
    \/ main_loop
    \/ terminate_signal_handler
    \/ edit_config_file

Spec == Init /\ [][Next]_vars

NextEngine ==
    \/ update_dns_get_own_ip
    \/ update_dns_get_dns_records
    \/ update_dns_update_record
    \/ update_dns_report
    \/ main_initial_hash
    \/ engine_loop

SpecEngine == InitEngine /\ [][NextEngine]_vars

NextRun ==
    \/ main_load_config
    \/ main_init_client
    \/ update_dns_get_own_ip
    \/ update_dns_get_dns_records
    \/ update_dns_update_record
    \/ update_dns_report
    \/ main_initial_hash
    \/ main_loop
    \/ terminate_signal_handler

SpecRun == InitRun /\ [][NextRun]_vars

(***************************************************************************)
(* Properties of the reconciliation engine (checked under SpecEngine)      *)
(***************************************************************************)
\* the hostname being reconciled, its clamped TTL and its name in the zone
CurHost == config.subdomains[idx]
CurTTL == normalize_ttl(CurHost.ttl).v
CurFqdn == get_fqdn(CurHost.name, cloudflare_api.base_domain_name)

\* the record the engine compares the hostname with: the first listed record
\* named CurFqdn
HasMatch == dns_records.ok /\ FirstMatch(dns_records.result, CurFqdn) # 0
Match == dns_records.result[FirstMatch(dns_records.result, CurFqdn)]

\* the three deltas of the matching record, as section 4.1 defines them
ContentChanged == Match.content # ip_data.address
ProxiedChanged == Match.proxied # CurHost.proxied
TtlChanged == ~Match.proxied /\ Match.ttl # CurTTL

\* a step that finishes the reconciliation of the current hostname
Reconciles == pc = "update_dns_record" /\ Len(outcomes') = Len(outcomes) + 1
LastOutcome == outcomes[Len(outcomes)]
LastCall == calls[Len(calls)]
InPass == pc \in {"get_dns_records", "update_dns_record", "report"}

\* C1: idempotence.  In a pass that follows a finished pass with the same
\* observed address and the same configuration, no hostname that was Created
\* or Updated in the earlier pass gets a create or update call again (its
\* outcome is not Created, Updated or Failed).
C1_Idempotence ==
    \A i \in DOMAIN outcomes :
        (/\ InPass
         /\ passes >= 1
         /\ prev.ip_data = ip_data
         /\ prev.config = config
         /\ i \in DOMAIN prev.outcomes
         /\ prev.outcomes[i] \in {"Created", "Updated"})
        => outcomes[i] \notin {"Created", "Updated", "Failed"}

\* C2 as stated: when the lookup for a hostname fails, a create call with
\* the desired name, content, proxied flag and TTL is issued for it.
C2_LookupFailureCreates ==
    [][(Reconciles /\ ~dns_records.ok) =>
         /\ Len(calls') = Len(calls) + 1
         /\ calls'[Len(calls')].op = "POST"
         /\ calls'[Len(calls')].payload.name = CurFqdn
         /\ calls'[Len(calls')].payload.content = ip_data.address
         /\ calls'[Len(calls')].payload.proxied = CurHost.proxied
         /\ calls'[Len(calls')].payload.ttl = CurTTL]_vars

\* C2 amended: when the lookup for a hostname fails, no create and no update
\* call is issued for it, the store is left as it is and the hostname counts
\* as not changed.
C2_LookupFailureSkips ==
    [][(Reconciles /\ ~dns_records.ok) =>
         /\ calls' = calls
         /\ store' = store
         /\ changes_made' = changes_made
         /\ outcomes' = Append(outcomes, "LookupFailed")]_vars

C2_Witness ==
    /\ pc = "report"
    /\ ~dns_records.ok
    /\ LastOutcome = "LookupFailed"
    /\ LastCall.op = "GET" /\ ~LastCall.ok

\* C7 as stated: a successful update of a differing record changes only the
\* fields among content, proxied and TTL whose delta is true, leaves every
\* other field (the comment too) as it was, and when only the content
\* differs the request carries only content.
C7_UpdateTouchesOnlyDeltas ==
    [][(Reconciles /\ HasMatch
        /\ (ContentChanged \/ ProxiedChanged \/ TtlChanged)) =>
         /\ Len(calls') = Len(calls) + 1
         /\ calls'[Len(calls')].op = "PATCH"
         /\ (ContentChanged /\ ~ProxiedChanged /\ ~TtlChanged) =>
                DOMAIN calls'[Len(calls')].payload = {"content"}
         /\ \A i \in DOMAIN store :
              /\ store'[i].comment = store[i].comment
              /\ store'[i].id = store[i].id
              /\ store'[i].type = store[i].type
              /\ store'[i].name = store[i].name]_vars

\* C7 amended: a differing record gets exactly one update call, addressed to
\* it.  The request always carries type, name, content, proxied, ttl and a
\* comment: content, proxied and TTL take the desired value where the delta
\* is true and repeat the record's value where it is not, type and name
\* repeat the record's, and the comment is replaced by the engine's own.  A
\* successful update changes nothing else in the store, a failed one nothing.
C7_UpdateEchoesAndStampsComment ==
    [][(Reconciles /\ HasMatch
        /\ (ContentChanged \/ ProxiedChanged \/ TtlChanged)) =>
         LET c == calls'[Len(calls')] IN
         /\ calls' = Append(calls, c)
         /\ c.op = "PATCH"
         /\ c.id = Match.id
         /\ DOMAIN c.payload =
               {"type", "name", "content", "proxied", "ttl", "comment"}
         /\ \A i \in DOMAIN store :
              IF c.ok /\ store[i].id = Match.id
              THEN /\ store'[i].id = store[i].id
                   /\ store'[i].type = store[i].type
                   /\ store'[i].name = store[i].name
                   /\ store'[i].content =
                        IF ContentChanged THEN ip_data.address
                        ELSE store[i].content
                   /\ store'[i].proxied =
                        IF ProxiedChanged THEN CurHost.proxied
                        ELSE store[i].proxied
                   /\ store'[i].ttl =
                        IF TtlChanged THEN CurTTL ELSE store[i].ttl
                   /\ store'[i].comment = "Updated by cffdns"
              ELSE store'[i] = store[i]
         /\ Len(store') = Len(store)
         /\ outcomes' = Append(outcomes, IF c.ok THEN "Updated" ELSE "Failed")]_vars

C7_Witness ==
    /\ pc = "report"
    /\ LastOutcome = "Updated"
    /\ LastCall.op = "PATCH"
    /\ \E i \in DOMAIN store :
         /\ store[i].id = LastCall.id
         /\ store[i].comment = "Updated by cffdns"
         /\ store[i].proxied /\ store[i].ttl # CurTTL

\* C8: when the listing holds a record named like the hostname and none of
\* the three deltas is true, the outcome is Unchanged, no create or update
\* call is issued and the store is the same before and after.
C8_UnchangedIssuesNothing ==
    [][(Reconciles /\ HasMatch
        /\ ~ContentChanged /\ ~ProxiedChanged /\ ~TtlChanged) =>
         /\ outcomes' = Append(outcomes, "Unchanged")
         /\ calls' = calls
         /\ store' = store
         /\ changes_made' = changes_made]_vars

C8_Witness ==
    /\ pc = "report"
    /\ HasMatch
    /\ ~ContentChanged /\ ~ProxiedChanged /\ ~TtlChanged
    /\ LastOutcome = "Unchanged"
    /\ LastCall.op = "GET"

\* C9: for a record whose proxied flag is true, ttl_changed is false
\* whatever the desired TTL is, and a TTL difference alone (content and
\* proxied flag as desired) causes no update.
C9_ProxiedIgnoresTtl ==
    [][(Reconciles /\ HasMatch /\ Match.proxied) =>
         /\ ~needs_update(Match, CurHost.proxied, CurTTL, ip_data).ttl
         /\ (~ContentChanged /\ ~ProxiedChanged) =>
                (calls' = calls /\ store' = store)]_vars

C9_Witness ==
    /\ pc = "report"
    /\ HasMatch
    /\ Match.proxied
    /\ Match.ttl # CurTTL
    /\ LastOutcome = "Unchanged"

\* C10: when the lookup succeeds and the store holds no record of the
\* observed type named like the hostname, exactly one call is issued, a
\* create carrying the observed type, the name, the observed address, the
\* desired proxied flag and the clamped TTL; the outcome is Created if it
\* succeeds (the record is then in the store) and Failed if it fails.
C10_NoMatchCreates ==
    [][(Reconciles /\ dns_records.ok
        /\ ~\E i \in DOMAIN store :
               store[i].type = ip_data.type /\ store[i].name = CurFqdn) =>
         LET c == calls'[Len(calls')] IN
         /\ calls' = Append(calls, c)
         /\ c.op = "POST"
         /\ c.payload.type = ip_data.type
         /\ c.payload.name = CurFqdn
         /\ c.payload.content = ip_data.address
         /\ c.payload.proxied = CurHost.proxied
         /\ c.payload.ttl = CurTTL
         /\ outcomes' = Append(outcomes, IF c.ok THEN "Created" ELSE "Failed")
         /\ IF c.ok
            THEN /\ Len(store') = Len(store) + 1
                 /\ SubSeq(store', 1, Len(store)) = store
                 /\ store'[Len(store')].type = ip_data.type
                 /\ store'[Len(store')].name = CurFqdn
                 /\ store'[Len(store')].content = ip_data.address
                 /\ store'[Len(store')].proxied = CurHost.proxied
                 /\ store'[Len(store')].ttl = CurTTL
            ELSE store' = store]_vars

C10_Witness ==
    /\ pc = "report"
    /\ passes = 0
    /\ LastOutcome = "Created"
    /\ LastCall.op = "POST"
    /\ store[Len(store)].name = CurFqdn
    /\ store[Len(store)].content = ip_data.address

(***************************************************************************)
(* Properties of the supervisor (checked under Spec)                       *)
(***************************************************************************)
Continuous == interval_seconds # 0
ValidFile == file.kind = "mapping" /\ validate_config(file.value)
FingerprintDiffers == get_file_hash(file) # initial_hash
UsableToken == file.value.auth.api_token \notin {Absent, "", PLACEHOLDER}

\* a terminated process does nothing more: no pass, no provider call
Terminated == pc = "exited"

\* C3 as stated: in continuous mode a failure to resolve the address at the
\* start of a pass of the loop leaves the process running: no hostname is
\* reconciled and the supervisor goes to sleep for the next pass.
C3_AddressFailureSkipsPass ==
    [][(Continuous /\ passes >= 1 /\ update_dns_get_own_ip /\ ip_data' = NoIp) =>
         /\ exit_code' = Running
         /\ pc' = "sleep"
         /\ calls' = <<>>]_vars

\* C3 amended: a failure to resolve the address at the start of a pass, in
\* continuous mode as in single-shot mode, ends the process with exit status
\* 1: no hostname is reconciled in that pass and nothing happens after it.
C3_AddressFailureTerminates ==
    /\ [][(update_dns_get_own_ip /\ ip_data' = NoIp) =>
            /\ pc' = "exited"
            /\ exit_code' = 1
            /\ calls' = <<>>
            /\ outcomes' = <<>>
            /\ store' = store
            /\ passes' = passes]_vars
    /\ [][(Terminated /\ exit_reason \in EchoFailures) =>
            UNCHANGED <<proc_vars, store>>]_vars

C3_Witness ==
    /\ Continuous
    /\ passes >= 1
    /\ Terminated
    /\ exit_code = 1
    /\ exit_reason \in EchoFailures
    /\ ip_data = NoIp
    /\ calls = <<>>

\* C4: in continuous mode, when the file's fingerprint differs from the
\* stored one and the file does not hold a valid configuration, the tick
\* keeps the configuration, the client and the stored fingerprint and goes on
\* to the pass (so the next tick finds the fingerprint differing again).
C4_FailedReloadKeepsState ==
    [][(main_loop /\ FingerprintDiffers /\ ~ValidFile) =>
         /\ config' = config
         /\ cloudflare_api' = cloudflare_api
         /\ initial_hash' = initial_hash
         /\ pc' = "get_own_ip"
         /\ exit_code' = Running]_vars

\* C5: when the file's content has changed during the sleep and holds a
\* valid configuration (with a usable token) at the tick, the pass that the
\* tick starts runs on that configuration, through a client constructed
\* from it.
C5_ChangeInSleepIsReloaded ==
    [][(main_loop /\ file # file_at_sleep /\ ValidFile /\ UsableToken
        /\ pc' = "get_own_ip") =>
         /\ config' = file.value
         /\ cloudflare_api' = Client(file.value)]_vars

\* C6: when a tick reloads a valid configuration and the client cannot be
\* constructed from it, the process ends with exit status 1, and after that
\* there is no pass and no provider call.
C6_FailedClientIsFatal ==
    /\ [][(main_loop /\ FingerprintDiffers /\ ValidFile
           /\ cloudflare_api' # Client(file.value)) =>
            /\ pc' = "exited"
            /\ exit_code' = 1
            /\ calls' = calls
            /\ store' = store]_vars
    /\ [][(Terminated /\ exit_code = 1 /\ passes >= 1) =>
            UNCHANGED <<proc_vars, store>>]_vars

C6_Witness ==
    /\ Terminated
    /\ exit_code = 1
    /\ passes >= 1
    /\ ValidFile
    /\ config = file.value
    /\ cloudflare_api # Client(file.value)
    /\ exit_reason \in {"KeyError", "InvalidAPITokenError",
                        "TokenVerificationError", "zone lookup failed"}

(***************************************************************************)
(* Properties of whole runs on a fixed file (checked under SpecRun)        *)
(***************************************************************************)
Mutations == {"POST", "PATCH"}
Lookups(k) == {j \in DOMAIN calls : calls[j].op = "GET" /\ calls[j].host = k}
MutationsOf(k) ==
    {j \in DOMAIN calls : calls[j].op \in Mutations /\ calls[j].host = k}
AllLookups == {j \in DOMAIN calls : calls[j].op = "GET"}

\* C11: the name a create or update request carries for a hostname is, with
\* label the configured name lowercased and trimmed: the base domain when
\* label is the base domain, label when it ends with "." and the base
\* domain, and label, ".", base domain in every other case, whether label
\* has one part or several.
C11_NameNormalization ==
    InPass =>
      \A j \in DOMAIN calls :
        calls[j].op \in Mutations =>
          LET label == Strip(Lower(config.subdomains[calls[j].host].name))
              base == cloudflare_api.base_domain_name
              name == calls[j].payload.name
          IN  /\ label = base => name = base
              /\ (label # base /\ EndsWith(label, <<".">> \o base)) =>
                     name = label
              /\ (label # base /\ ~EndsWith(label, <<".">> \o base)) =>
                     name = label \o <<".">> \o base

C11_Witness ==
    /\ pc = "report"
    /\ config.subdomains[1].name = <<" ", "E", ".", "c", " ">>
    /\ cloudflare_api.base_domain_name = <<"e", ".", "c">>
    /\ LastCall.op = "POST"
    /\ LastCall.payload.name = <<"e", ".", "c">>

\* the TTL the claim gives for a configured value: 1 for "auto" and 1, the
\* number itself when it lies in [60, 86400], 300 for everything else
ClaimedTTL(ttl) ==
    LET n == IF ttl.kind = "int" THEN [ok |-> TRUE, v |-> ttl.int]
             ELSE IntOfStr(ttl.str)
    IN  IF (ttl.kind = "str" /\ ttl.str = AUTO) \/ (ttl.kind = "int" /\ ttl.int = 1)
        THEN 1
        ELSE IF n.ok /\ n.v >= 60 /\ n.v <= 86400 THEN n.v ELSE 300

\* C12: for every TTL that validation accepts, the clamp of a hostname's
\* TTL in a pass does not end the pass (the lookup of the hostname follows),
\* and the TTL a create request carries is 1 for "auto" and 1, the number
\* itself within [60, 86400], and 300 for every other value, malformed
\* ones included.
C12_TtlNormalizationNeverFails ==
    /\ [][update_dns_get_dns_records =>
            (exit_code' = Running /\ pc' = "update_dns_record")]_vars
    /\ [](InPass =>
            \A j \in DOMAIN calls :
              calls[j].op = "POST" =>
                calls[j].payload.ttl =
                   ClaimedTTL(config.subdomains[calls[j].host].ttl))

\* C13: a poll interval given on the command line that lies outside
\* [30, 3600] gives continuous mode with an interval of 60 (the process does
\* not finish after one pass); one inside the range is used as given.
C13_IntervalClamp ==
    args.given =>
      IF args.v < 30 \/ args.v > 3600
      THEN /\ interval_seconds = 60
           /\ ~(Terminated /\ exit_reason = "done")
      ELSE interval_seconds = args.v

\* C14: when the create or update call of a hostname fails, the hostname's
\* outcome is Failed, the store is untouched, the call is the only create or
\* update call of the hostname in the pass, the process keeps running and
\* control goes to the next hostname of the configuration (to the report
\* after the last one); a pass that reaches its report has an outcome for
\* every hostname.
C14_FailureContinuesPass ==
    /\ [][(Reconciles /\ Len(calls') = Len(calls) + 1
           /\ ~calls'[Len(calls')].ok) =>
            /\ outcomes' = Append(outcomes, "Failed")
            /\ store' = store
            /\ changes_made' = changes_made
            /\ exit_code' = Running
            /\ Cardinality({j \in DOMAIN calls' :
                  calls'[j].op \in Mutations /\ calls'[j].host = idx}) = 1
            /\ IF idx < Len(config.subdomains)
               THEN pc' = "get_dns_records" /\ idx' = idx + 1
               ELSE pc' = "report"]_vars
    /\ [](pc = "report" =>
            /\ Len(outcomes) = Len(config.subdomains)
            /\ \A k \in DOMAIN config.subdomains :
                 Cardinality(MutationsOf(k)) <= 1)

C14_Witness ==
    /\ pc = "report"
    /\ Len(config.subdomains) >= 2
    /\ outcomes[1] = "Failed"
    /\ MutationsOf(1) # {}
    /\ \A j \in MutationsOf(1) : ~calls[j].ok
    /\ Lookups(2) # {}
    /\ outcomes[2] \in {"Created", "Updated", "Unchanged"}

\* C15 as stated: a pass issues one list call in total, however many
\* hostnames are configured.
C15_OneListCallPerPass ==
    InPass => Cardinality(AllLookups) <= 1

\* C15 amended: a pass issues one list call per configured hostname, for the
\* type of the observed address, just before that hostname is decided: a
\* pass over N hostnames issues N list calls.
C15_OneListCallPerHostname ==
    InPass =>
      /\ \A j \in AllLookups : calls[j].payload.type = ip_data.type
      /\ \A k \in DOMAIN config.subdomains :
           Cardinality(Lookups(k)) =
              IF k < idx \/ (k = idx /\ pc # "get_dns_records") THEN 1 ELSE 0
      /\ pc = "report" => Cardinality(AllLookups) = Len(config.subdomains)

C15_Witness ==
    /\ pc = "report"
    /\ Len(config.subdomains) = 2
    /\ Cardinality(AllLookups) = 2
    /\ Lookups(1) # {} /\ Lookups(2) # {}

\* C16: a configuration with only an email+key pair passes validation, and
\* the client construction from it ends the process only when the provider
\* refuses the credentials or the zone lookup fails.
C16_KeyEmailAuthenticates ==
    /\ [][(main_load_config /\ file.kind = "mapping"
           /\ file.value.auth.api_token = Absent
           /\ file.value.auth.api_key # Absent
           /\ Strip(file.value.zone_id) # <<>>) =>
            pc' = "init_client"]_vars
    /\ [][(main_init_client /\ config.auth.api_token = Absent
           /\ config.auth.api_key # Absent /\ pc' = "exited") =>
            exit_reason' \in {"TokenVerificationError",
                              "zone lookup failed"}]_vars

StartupFailures ==
    {"TypeError", "Invalid configuration", "KeyError", "InvalidAPITokenError",
     "TokenVerificationError", "zone lookup failed"}

\* C17: at startup, when the file does not hold a valid configuration, or
\* the token is empty or the placeholder, or the client cannot be constructed
\* (credential verification or zone lookup failed), the process ends with
\* status 1; it has then resolved no address and issued no provider call,
\* the store is as it was, and nothing happens afterwards.
C17_StartupFailureIsFatal ==
    /\ [][(main_load_config /\ ~ValidFile) =>
            (pc' = "exited" /\ exit_code' = 1)]_vars
    /\ [][(main_init_client
           /\ (config.auth.api_token \in {"", PLACEHOLDER}
               \/ cloudflare_api' # Client(config))) =>
            (pc' = "exited" /\ exit_code' = 1)]_vars
    /\ [][(main_load_config \/ main_init_client) =>
            (store' = store /\ calls' = <<>> /\ ip_data' = NoIp)]_vars
    /\ []((Terminated /\ exit_reason \in StartupFailures /\ passes = 0) =>
            /\ exit_code = 1
            /\ idx = 0
            /\ ip_data = NoIp
            /\ calls = <<>>
            /\ outcomes = <<>>)
    /\ [][(Terminated /\ exit_reason \in StartupFailures) =>
            UNCHANGED <<proc_vars, store>>]_vars

C17_Witness ==
    /\ Terminated
    /\ exit_code = 1
    /\ exit_reason = "InvalidAPITokenError"
    /\ config.auth.api_token = PLACEHOLDER
    /\ passes = 0
    /\ calls = <<>>

\* C19: in single-shot mode, once the address has been resolved, the process
\* ends only by a signal or with status 0, after exactly one pass that has
\* an outcome for every hostname; it never sleeps and never runs a second
\* pass.
C19_SingleShotOnePassExitZero ==
    ~Continuous =>
      /\ pc # "sleep"
      /\ passes <= 1
      /\ (Terminated /\ ip_data # NoIp /\ exit_reason # "signal") =>
            /\ exit_code = 0
            /\ passes = 1
            /\ Len(outcomes) = Len(config.subdomains)

\* C20: in a pass the provider calls are issued hostname after hostname in
\* the order of the configuration, none for a hostname before the calls of
\* the hostnames ahead of it; the create or update call of a hostname comes
\* right after the lookup of that hostname, and is issued only for an
\* answered lookup: a create when no listed record has the name, an update
\* when the first such record has a true delta.
C20_SequentialInOrder ==
    /\ [](InPass =>
            /\ \A i, j \in DOMAIN calls :
                 i < j => calls[i].host <= calls[j].host
            /\ \A j \in DOMAIN calls :
                 /\ calls[j].host \in 1..idx
                 /\ calls[j].op \in Mutations =>
                      /\ j > 1
                      /\ calls[j - 1].op = "GET"
                      /\ calls[j - 1].host = calls[j].host
                      /\ calls[j - 1].ok
            /\ \A k \in 1..(idx - 1) : Lookups(k) # {})
    /\ [][(Reconciles /\ Len(calls') = Len(calls) + 1) =>
            /\ LastCall.op = "GET" /\ LastCall.host = idx
            /\ calls'[Len(calls')].host = idx
            /\ dns_records.ok
            /\ IF HasMatch
               THEN /\ calls'[Len(calls')].op = "PATCH"
                    /\ ContentChanged \/ ProxiedChanged \/ TtlChanged
               ELSE calls'[Len(calls')].op = "POST"]_vars

C20_Witness ==
    /\ pc = "report"
    /\ Len(config.subdomains) = 2
    /\ Len(calls) = 4
    /\ calls[1].op = "GET" /\ calls[1].host = 1
    /\ calls[2].op = "PATCH" /\ calls[2].host = 1
    /\ calls[3].op = "GET" /\ calls[3].host = 2
    /\ calls[4].op = "POST" /\ calls[4].host = 2

(***************************************************************************)
(* Signals (checked under Spec)                                            *)
(***************************************************************************)
\* C18: a termination signal can be handled in every state of the running
\* process; handling it ends the process with status 0 without touching
\* the store, and after that no provider call is issued and nothing changes.
C18_SignalExitsCleanly ==
    /\ [](pc # "exited" => ENABLED terminate_signal_handler)
    /\ [][terminate_signal_handler =>
            /\ pc' = "exited"
            /\ exit_code' = 0
            /\ calls' = calls
            /\ store' = store]_vars
    /\ [][(Terminated /\ exit_reason = "signal") =>
            UNCHANGED <<proc_vars, store>>]_vars

C18_Witness ==
    /\ Terminated
    /\ exit_code = 0
    /\ exit_reason = "signal"
    /\ passes >= 1
    /\ idx >= 1
    /\ Len(outcomes) < Len(config.subdomains)
    /\ calls # <<>>
    /\ LastCall.op = "GET"

(***************************************************************************)
(* The observation of a pass and the record types (checked under           *)
(* SpecEngine)                                                             *)
(***************************************************************************)
\* C21: every pass starts by resolving the address, and what the echo
\* endpoint answers then, whatever an earlier pass observed, becomes the
\* observation of the pass; the observation changes at no other step, and
\* every provider call of the pass is made for its type and address.
C21_FreshObservationEachPass ==
    /\ [](pc = "get_own_ip" =>
            \A a \in Addresses :
               ENABLED (update_dns_get_own_ip /\ ip_data' = Observation(a)))
    /\ [][(~InPass /\ InPass') =>
            (update_dns_get_own_ip
             /\ ip_data' \in {Observation(a) : a \in Addresses})]_vars
    /\ [][ip_data' # ip_data => update_dns_get_own_ip]_vars
    /\ [](InPass =>
            \A j \in DOMAIN calls :
              /\ calls[j].payload.type = ip_data.type
              /\ calls[j].op \in Mutations =>
                    calls[j].payload.content = ip_data.address)

C21_Witness ==
    /\ pc = "report"
    /\ passes >= 1
    /\ prev.ip_data # NoIp
    /\ prev.ip_data.address # ip_data.address
    /\ LastCall.op \in Mutations
    /\ LastCall.payload.content = ip_data.address

\* the store holds records named like the hostname, none of the observed
\* type
OtherFamilyOnly ==
    /\ \E i \in DOMAIN store :
         store[i].name = CurFqdn /\ store[i].type # ip_data.type
    /\ ~\E i \in DOMAIN store :
         store[i].name = CurFqdn /\ store[i].type = ip_data.type

\* C22: the answer of a lookup holds records of the observed type only; for
\* a hostname whose records in the store are all of the other address family
\* exactly one call is issued, a create of the observed type, and every
\* record the store held stays as it was.
C22_OtherFamilyNeverMatched ==
    /\ []((pc = "update_dns_record" /\ dns_records.ok) =>
            \A i \in DOMAIN dns_records.result :
               dns_records.result[i].type = ip_data.type)
    /\ [][(Reconciles /\ dns_records.ok /\ OtherFamilyOnly) =>
            LET c == calls'[Len(calls')] IN
            /\ calls' = Append(calls, c)
            /\ c.op = "POST"
            /\ c.payload.type = ip_data.type
            /\ c.payload.name = CurFqdn
            /\ SubSeq(store', 1, Len(store)) = store
            /\ IF c.ok
               THEN /\ Len(store') = Len(store) + 1
                    /\ store'[Len(store')].type = ip_data.type
                    /\ store'[Len(store')].name = CurFqdn
               ELSE store' = store]_vars

C22_Witness ==
    /\ pc = "report"
    /\ ip_data.type = "AAAA"
    /\ LastCall.op = "POST" /\ LastCall.ok
    /\ \E i \in DOMAIN store :
         /\ store[i].name = CurFqdn /\ store[i].type = "A"
         /\ store[i].comment = "set by user"
    /\ store[Len(store)].name = CurFqdn
    /\ store[Len(store)].type = "AAAA"

(***************************************************************************)
(* The legacy validation (checked under SpecHelpers)                       *)
(***************************************************************************)
\* a configuration the claim calls valid: one authentication method, a
\* non-empty zone_id, and subdomains with a non-empty name of valid
\* characters, a boolean proxied and a TTL that is an integer, "1" or "auto"
LegacyValid ==
    /\ (config.auth.api_token = Absent) # (config.auth.api_key = Absent)
    /\ config.zone_id \notin {Absent, ""}
    /\ \A i \in DOMAIN config.subdomains :
         LET sub == config.subdomains[i] IN
         /\ sub.has_name /\ sub.name # <<>>
         /\ \A k \in DOMAIN sub.name : sub.name[k] \in NameChars
         /\ sub.proxied.kind = "bool"
         /\ \/ sub.ttl.kind = "int"
            \/ (sub.ttl.kind = "str" /\ sub.ttl.str \in {<<"1">>, AUTO})

\* C23: the legacy validate_config raises ValueError for every configuration
\* whose authentication block has neither api_token nor api_key, whatever
\* the other fields are, and returns None for every valid configuration.
C23_LegacyValidation ==
    pc = "validated" =>
      /\ (config.auth.api_token = Absent /\ config.auth.api_key = Absent) =>
            report = "ValueError"
      /\ LegacyValid => report = "None"

C23_Witness ==
    /\ pc = "validated"
    /\ config.auth.api_token = Absent /\ config.auth.api_key = Absent
    /\ config.zone_id = "my_zone_id"
    /\ Len(config.subdomains) = 1
    /\ config.subdomains[1].ttl = TStr(<<"X", "Y", "Z">>)
    /\ report = "ValueError"

(***************************************************************************)
(* Reload, convergence and the report                                      *)
(***************************************************************************)
\* C24: while the process runs, the stored fingerprint is the fingerprint of
\* the content the configuration in use was loaded from, so that a tick
\* which finds another valid configuration (with a usable token) in the file
\* reloads it.
C24_FingerprintOfLoadedContent ==
    /\ []((~Terminated /\ initial_hash # NoHash) =>
            initial_hash = get_file_hash(Mapping(config)))
    /\ [][(main_loop /\ file # Mapping(config) /\ ValidFile /\ UsableToken
           /\ pc' = "get_own_ip") =>
            config' = file.value]_vars

DistinctNames ==
    \A i, j \in DOMAIN config.subdomains :
       get_fqdn(config.subdomains[i].name, cloudflare_api.base_domain_name)
         = get_fqdn(config.subdomains[j].name, cloudflare_api.base_domain_name)
       => i = j

\* C25: in a pass that follows two or more finished passes with the same
\* observed address, the same configuration (of pairwise distinct names)
\* and no failed provider call, and that has itself seen no failed call,
\* every outcome is Unchanged.
C25_ConvergesByThirdPass ==
    (/\ InPass
     /\ prev.steady >= 2
     /\ prev.ip_data = ip_data
     /\ prev.config = config
     /\ DistinctNames
     /\ \A j \in DOMAIN calls : calls[j].ok)
    => \A i \in DOMAIN outcomes : outcomes[i] = "Unchanged"

\* C26: during every pass, from its first step on, the client in use is the
\* one constructed from the configuration in use: it holds that
\* configuration, its zone, its token and the base domain of its zone.
C26_ClientOfConfig ==
    (pc = "get_own_ip" \/ InPass) =>
      /\ cloudflare_api.config = config
      /\ cloudflare_api.zone_id = config.zone_id
      /\ cloudflare_api.token = config.auth.api_token
      /\ cloudflare_api.base_domain_name = ZoneName(config.zone_id)

C26_Witness ==
    /\ pc = "get_dns_records"
    /\ passes >= 1
    /\ prev.config # config
    /\ prev.config # NoConfig
    /\ config = file.value
    /\ cloudflare_api.config = config
    /\ cloudflare_api.token = config.auth.api_token

\* C27: no create call is issued for a name while the store holds a record
\* of the observed type with that name, whatever the number of records of
\* the zone.
C27_NoCreateWhileRecordExists ==
    [][(Reconciles /\ Len(calls') = Len(calls) + 1
        /\ calls'[Len(calls')].op = "POST") =>
         ~\E i \in DOMAIN store :
             store[i].type = ip_data.type /\ store[i].name = CurFqdn]_vars

\* C28: a finished pass is reported as all up to date only if every
\* hostname's outcome in it was Unchanged.
C28_UpToDateMeansAllUnchanged ==
    (passes >= 1 /\ report = "All DNS records up-to-date") =>
       \A i \in DOMAIN prev.outcomes : prev.outcomes[i] = "Unchanged"

====
